---- MODULE Spec2Model ----
(***************************************************************************)
(* Model of src-tauri/src/clipboard_manager.rs: the ClipboardManager       *)
(* history store (add_text, add_image, insert_item, clear, remove_item,    *)
(* toggle_pin), the paste-back suppression slots (mark_as_pasted,          *)
(* mark_text_as_pasted) and paste_item.                                    *)
(*                                                                         *)
(* Option<T> values are modelled as sets: None is {} and Some(x) is {x}.   *)
(* A text is a sequence of characters.  An item is a record                *)
(*   [id, kind, text, previewHash, pinned, timestamp]                      *)
(* where kind is "text" or "image"; for an image previewHash is the number *)
(* new_image_with_hash prints after '#' in the preview string.             *)
(***************************************************************************)
EXTENDS Integers, Sequences, FiniteSets, TLC

\* MAX_HISTORY_SIZE of the source is 50; the model runs the same code with a
\* smaller capacity so that the trimming loop is exercised.
MAX_HISTORY_SIZE == 2

\* Bound on the number of items ever created (ids / timestamps handed out).
MaxCreated == 3

None == {}
Some(x) == {x}

\* new_text keeps the first 100 bytes of a longer text as its preview; the
\* model runs the same code with a limit of 4 bytes and texts scaled with it.
PREVIEW_BYTES == 4

\* "W" stands for one character whose UTF-8 encoding takes three bytes.
WideChar == "W"

\* Two three-byte characters: 6 bytes, with character boundaries at 3 and 6
\* (as 34 of them are 102 bytes with boundaries at 99 and 102).
LongWideText == << WideChar, WideChar >>

\* The texts the poller may hand to add_text: a blank one, two short ones and
\* a long one of multi-byte characters.
Texts == { <<" ">>, <<"a">>, <<"b">>, LongWideText }

\* The texts the UI may hand to mark_text_as_pasted (a symbol it typed itself).
SymbolTexts == { <<"a">>, <<"b">> }

\* The content hashes get_current_image may report.  12 and 1 are chosen
\* because the decimal text of one is a prefix of the other's.
ImageHashes == {1, 12}

\* What the raw pixel buffer handed to add_image turns out to be.
ImageInputs == {"ok", "badlen", "encfail"}

\* Outcomes of the fallible steps of paste_item, in the order they run.
PasteOutcomes == {"clipboard_err", "write_err", "decode_err", "inject_err", "ok"}

VARIABLES
    history,                \* Vec<ClipboardItem>
    last_pasted_text,       \* Option<String>
    last_pasted_image_hash, \* Option<u64>
    last_added_text_hash,   \* Option<u64>
    created,                \* number of items constructed so far (ids, clock)
    last,                   \* the most recent call (see Call)
    prev,                   \* the call before it, when both are add_text of one text
    pasteChain,             \* observer of paste_item(x); add_text(x); add_text(u); add_text(x)
    unpinned,               \* ids of the non-pinned items of history that were pinned before
    pc,                     \* where a paste_item call stands (see PasteSpec)
    step,                   \* index of the next call in the running stage
    trace,                  \* the calls paste_item has made so far, in order
    results,                \* the result of each stage that has ended, in order
    simRet,                 \* what simulate_paste returned: "none" (not yet), "ok", "err"
    pasteRet,               \* what paste_item returned: "none" (not yet), "ok", "err"
    pasting                 \* Option of the item of the running paste_item call

pasteVars == << pc, step, trace, results, simRet, pasteRet, pasting >>

vars == << history, last_pasted_text, last_pasted_image_hash,
           last_added_text_hash, created, last, prev, pasteChain, unpinned,
           pc, step, trace, results, simRet, pasteRet, pasting >>

----------------------------------------------------------------------------
\* Pure helpers

Whitespace == {" "}

\* text.trim().is_empty()
IsBlank(text) == \A i \in 1..Len(text) : text[i] \in Whitespace

CharCode(c) == CASE c = " " -> 32 [] c = "a" -> 97 [] c = "b" -> 98
                 [] c = WideChar -> 20013 [] OTHER -> 0

\* the number of bytes of the UTF-8 encoding of a character
CharBytes(c) == IF c = WideChar THEN 3 ELSE 1

\* text.len(): the length in bytes
RECURSIVE ByteLen(_)
ByteLen(text) == IF text = <<>> THEN 0 ELSE CharBytes(Head(text)) + ByteLen(Tail(text))

\* str::is_char_boundary(n): n bytes make up a whole number of characters
IsCharBoundary(text, n) == \E k \in 0..Len(text) : ByteLen(SubSeq(text, 1, k)) = n

\* &text[..100] in new_text panics when byte 100 is inside a character
SlicePanics(text) ==
    ByteLen(text) > PREVIEW_BYTES /\ ~IsCharBoundary(text, PREVIEW_BYTES)

\* DefaultHasher over the text: a deterministic function of the characters,
\* folded into a fixed width (the width is scaled down with the texts).
RECURSIVE HashFold(_, _)
HashFold(text, acc) ==
    IF text = <<>> THEN acc
    ELSE HashFold(Tail(text), (acc * 131 + CharCode(Head(text)) + 1) % 65536)

TextHash(text) == HashFold(text, 7)

\* preview.contains(&format!("#{}", hash)) on a preview "Image (WxH) #stored":
\* the decimal text of hash is a prefix of the decimal text of stored.
RECURSIVE DecPrefix(_, _)
DecPrefix(hash, stored) ==
    IF stored = hash THEN TRUE
    ELSE IF stored < 10 THEN FALSE
    ELSE DecPrefix(hash, stored \div 10)

PreviewContainsHash(item, hash) == DecPrefix(hash, item.previewHash)

IsText(item, text) == item.kind = "text" /\ item.text = text

RemoveAt(h, pos) == SubSeq(h, 1, pos - 1) \o SubSeq(h, pos + 1, Len(h))

InsertAt(h, pos, item) == SubSeq(h, 1, pos - 1) \o <<item>> \o SubSeq(h, pos, Len(h))

NonPinnedIdx(h) == { i \in 1..Len(h) : ~h[i].pinned }

\* iter().position(|i| !i.pinned): 0 stands for None, indices are 1-based
FirstNonPinned(h) ==
    IF NonPinnedIdx(h) = {} THEN 0
    ELSE CHOOSE i \in NonPinnedIdx(h) : \A j \in NonPinnedIdx(h) : i <= j

\* Mutant of LastNonPinned: the trimming loop removes the last item, pinned or not.
LastAny(h) == Len(h)

\* iter().rposition(|i| !i.pinned)
LastNonPinned(h) ==
    IF NonPinnedIdx(h) = {} THEN 0
    ELSE CHOOSE i \in NonPinnedIdx(h) : \A j \in NonPinnedIdx(h) : i >= j

Ids(h) == { h[i].id : i \in 1..Len(h) }

IndexOf(h, id) == CHOOSE i \in 1..Len(h) : h[i].id = id

NonPinnedCount(h) == Cardinality(NonPinnedIdx(h))

----------------------------------------------------------------------------
\* Item constructors: the id and the timestamp are both fresh; the n-th item
\* constructed gets id n and capture time n.

\* ClipboardItem::new_text
NewText(n, text) ==
    [id |-> n, kind |-> "text", text |-> text, previewHash |-> 0,
     pinned |-> FALSE, timestamp |-> n]

\* ClipboardItem::new_image_with_hash
NewImageWithHash(n, hash) ==
    [id |-> n, kind |-> "image", text |-> <<>>, previewHash |-> hash,
     pinned |-> FALSE, timestamp |-> n]

----------------------------------------------------------------------------
\* insert_item

\* Mutant of InsertPos: the item is pushed at the end of the history.
InsertPosEnd(h) == Len(h) + 1

\* position(|i| !i.pinned).unwrap_or(0), as a 1-based index
InsertPos(h) == IF FirstNonPinned(h) = 0 THEN 1 ELSE FirstNonPinned(h)

\* Mutant of Trim: the trimming loop is missing.
TrimNever(h) == h

\* while history.len() > MAX_HISTORY_SIZE { remove the last non-pinned | break }
RECURSIVE Trim(_)
Trim(h) ==
    IF Len(h) > MAX_HISTORY_SIZE
    THEN IF LastNonPinned(h) # 0 THEN Trim(RemoveAt(h, LastNonPinned(h))) ELSE h
    ELSE h

\* Mutant of InsertItem: the item is inserted and the history is not trimmed.
InsertItemNoTrim(h, item) == InsertAt(h, InsertPos(h), item)

InsertItem(h, item) == Trim(InsertAt(h, InsertPos(h), item))

\* position(|item| !item.pinned && content is Text(text)): 0 stands for None
DupPos(h, text) ==
    LET S == { i \in NonPinnedIdx(h) : IsText(h[i], text) }
    IN  IF S = {} THEN 0 ELSE CHOOSE i \in S : \A j \in S : i <= j

\* the history add_text inserts into: the duplicate, if any, removed
WithoutDup(h, text) == IF DupPos(h, text) = 0 THEN h ELSE RemoveAt(h, DupPos(h, text))

\* the first non-pinned item is Text(text)
TopIsText(h, text) ==
    FirstNonPinned(h) # 0 /\ IsText(h[FirstNonPinned(h)], text)

\* the first non-pinned item is an image whose preview contains "#hash"
TopIsImage(h, hash) ==
    /\ FirstNonPinned(h) # 0
    /\ h[FirstNonPinned(h)].kind = "image"
    /\ PreviewContainsHash(h[FirstNonPinned(h)], hash)

----------------------------------------------------------------------------
\* Bookkeeping of calls (not state of the program)

\* op: the function called; text, num: its text / id / hash argument; kind: the
\* kind of the item pasted; ret: what it returned; why: the return statement
\* that produced it; rid: the id of the item returned; len0: history.len()
\* when the call began.
Call(op, text, num, kind, ret, why, rid) ==
    [op |-> op, text |-> text, num |-> num, kind |-> kind, ret |-> ret,
     why |-> why, rid |-> rid, len0 |-> Len(history)]

NoCall ==
    [op |-> "new", text |-> <<>>, num |-> 0, kind |-> "", ret |-> "unit",
     why |-> "", rid |-> 0, len0 |-> 0]

NoChain == [stage |-> 0, text |-> <<>>]

\* paste_item(x) of a text item; add_text(x.text); add_text(u), u another
\* non-blank text; add_text(x.text): stages 1, 2, 3, 4.
NextChain(c, op, text) ==
    IF op = "paste_text" THEN [stage |-> 1, text |-> text]
    ELSE IF op = "add_text" /\ c.stage = 1 /\ text = c.text
         THEN [stage |-> 2, text |-> c.text]
    ELSE IF op = "add_text" /\ c.stage = 2 /\ text # c.text /\ ~IsBlank(text)
         THEN [stage |-> 3, text |-> c.text]
    ELSE IF op = "add_text" /\ c.stage = 3 /\ text = c.text
         THEN [stage |-> 4, text |-> c.text]
    ELSE NoChain

\* prev is the call before last when both are add_text of the same text.
\* A panic unwinds the caller: no further call is made after one.
Record(call, chainOp, chainText) ==
    /\ last.ret # "panic"
    /\ last' = call
    /\ prev' = IF call.op = "add_text" /\ last.op = "add_text" /\ last.text = call.text
               THEN last ELSE NoCall
    /\ pasteChain' = NextChain(pasteChain, chainOp, chainText)
    /\ UNCHANGED pasteVars

Returned(op, text, num, ret, why, rid) ==
    Record(Call(op, text, num, "", ret, why, rid), op, text)

\* no paste_item call is running
PasteIdle ==
    /\ pc = "idle"
    /\ step = 1
    /\ trace = <<>>
    /\ results = <<>>
    /\ simRet = "none"
    /\ pasteRet = "none"
    /\ pasting = None

----------------------------------------------------------------------------
Init ==
    /\ history = <<>>
    /\ last_pasted_text = None
    /\ last_pasted_image_hash = None
    /\ last_added_text_hash = None
    /\ created = 0
    /\ last = NoCall
    /\ prev = NoCall
    /\ pasteChain = NoChain
    /\ unpinned = {}
    /\ PasteIdle

\* add_text(text)
AddText(text) ==
    IF IsBlank(text) THEN
        /\ Returned("add_text", text, 0, "none", "blank", 0)
        /\ UNCHANGED << history, last_pasted_text, last_pasted_image_hash,
                        last_added_text_hash, created, unpinned >>
    ELSE IF Some(TextHash(text)) = last_added_text_hash THEN
        /\ Returned("add_text", text, 0, "none", "burst", 0)
        /\ UNCHANGED << history, last_pasted_text, last_pasted_image_hash,
                        last_added_text_hash, created, unpinned >>
    ELSE IF last_pasted_text = Some(text) THEN
        /\ last_pasted_text' = None
        /\ Returned("add_text", text, 0, "none", "pasted", 0)
        /\ UNCHANGED << history, last_pasted_image_hash, last_added_text_hash,
                        created, unpinned >>
    ELSE IF TopIsText(history, text) THEN
        /\ last_added_text_hash' = Some(TextHash(text))
        /\ Returned("add_text", text, 0, "none", "top", 0)
        /\ UNCHANGED << history, last_pasted_text, last_pasted_image_hash,
                        created, unpinned >>
    ELSE IF SlicePanics(text) THEN
        \* the duplicate is removed and the hash stored before new_text panics
        /\ last_added_text_hash' = Some(TextHash(text))
        /\ history' = WithoutDup(history, text)
        /\ Returned("add_text", text, 0, "panic", "slice", 0)
        /\ unpinned' = unpinned \cap Ids(history')
        /\ UNCHANGED << last_pasted_text, last_pasted_image_hash, created >>
    ELSE
        /\ created < MaxCreated
        /\ last_added_text_hash' = Some(TextHash(text))
        /\ created' = created + 1
        /\ history' = InsertItem(WithoutDup(history, text), NewText(created + 1, text))
        /\ Returned("add_text", text, 0, "some",
                    IF DupPos(history, text) = 0 THEN "inserted" ELSE "moved",
                    created + 1)
        /\ unpinned' = unpinned \cap Ids(history')
        /\ UNCHANGED << last_pasted_text, last_pasted_image_hash >>

\* add_image(image_data, hash); input says what the pixel buffer is like
AddImage(input, hash) ==
    IF last_pasted_image_hash = Some(hash) THEN
        /\ last_pasted_image_hash' = None
        /\ Returned("add_image", <<>>, hash, "none", "pasted", 0)
        /\ UNCHANGED << history, last_pasted_text, last_added_text_hash,
                        created, unpinned >>
    ELSE IF TopIsImage(history, hash) THEN
        /\ Returned("add_image", <<>>, hash, "none", "top", 0)
        /\ UNCHANGED << history, last_pasted_text, last_pasted_image_hash,
                        last_added_text_hash, created, unpinned >>
    ELSE IF input = "badlen" THEN
        \* RgbaImage::from_raw(..) is None and .unwrap() panics
        /\ Returned("add_image", <<>>, hash, "panic", "unwrap", 0)
        /\ UNCHANGED << history, last_pasted_text, last_pasted_image_hash,
                        last_added_text_hash, created, unpinned >>
    ELSE IF input = "encfail" THEN
        \* img.write_to(..).is_err()
        /\ Returned("add_image", <<>>, hash, "none", "encode", 0)
        /\ UNCHANGED << history, last_pasted_text, last_pasted_image_hash,
                        last_added_text_hash, created, unpinned >>
    ELSE
        /\ created < MaxCreated
        /\ created' = created + 1
        /\ history' = InsertItem(history, NewImageWithHash(created + 1, hash))
        /\ Returned("add_image", <<>>, hash, "some", "inserted", created + 1)
        /\ unpinned' = unpinned \cap Ids(history')
        /\ UNCHANGED << last_pasted_text, last_pasted_image_hash,
                        last_added_text_hash >>

\* Mutant of Cleared: clear() empties the history.
ClearedAll(h) == <<>>

\* history.retain(|item| item.pinned)
Cleared(h) == LET Keep(item) == item.pinned IN SelectSeq(h, Keep)

\* clear()
Clear ==
    /\ history' = Cleared(history)
    /\ Returned("clear", <<>>, 0, "unit", "", 0)
    /\ unpinned' = unpinned \cap Ids(history')
    /\ UNCHANGED << last_pasted_text, last_pasted_image_hash,
                    last_added_text_hash, created >>

\* history.retain(|item| item.id != id)
Removed(h, id) == LET Keep(item) == item.id # id IN SelectSeq(h, Keep)

\* remove_item(id)
RemoveItem(id) ==
    /\ history' = Removed(history, id)
    /\ Returned("remove_item", <<>>, 0, "unit", "", 0)
    /\ unpinned' = unpinned \cap Ids(history')
    /\ UNCHANGED << last_pasted_text, last_pasted_image_hash,
                    last_added_text_hash, created >>

\* the history after toggle_pin(id) found the item
Toggled(h, id) ==
    [h EXCEPT ![IndexOf(h, id)].pinned = ~h[IndexOf(h, id)].pinned]

\* toggle_pin(id)
TogglePin(id) ==
    IF id \in Ids(history) THEN
        /\ history' = Toggled(history, id)
        /\ unpinned' = IF history[IndexOf(history, id)].pinned
                        THEN unpinned \cup {id} ELSE unpinned \ {id}
        /\ Returned("toggle_pin", <<>>, 0, "some", "", 0)
        /\ UNCHANGED << last_pasted_text, last_pasted_image_hash,
                        last_added_text_hash, created >>
    ELSE
        /\ Returned("toggle_pin", <<>>, 0, "none", "", 0)
        /\ UNCHANGED << history, last_pasted_text, last_pasted_image_hash,
                        last_added_text_hash, created, unpinned >>

\* The suppression slots after mark_as_pasted(item).  The preview of an item
\* built by new_image_with_hash is "Image (WxH) #<hash>", so split('#').nth(1)
\* parses back to the hash.
PastedText(item) == IF item.kind = "text" THEN Some(item.text) ELSE None

PastedImageHash(item) == IF item.kind = "text" THEN None ELSE Some(item.previewHash)

\* mark_as_pasted(item)
MarkAsPasted(item) ==
    /\ last_pasted_text' = PastedText(item)
    /\ last_pasted_image_hash' = PastedImageHash(item)
    /\ Record(Call("mark_as_pasted", <<>>, 0, item.kind, "unit", "", 0),
              "mark_as_pasted", <<>>)
    /\ UNCHANGED << history, last_added_text_hash, created, unpinned >>

\* the slots after mark_text_as_pasted(text):
\* <<last_pasted_text, last_pasted_image_hash, last_added_text_hash>>
TextMarked(text, imageHash) == << Some(text), imageHash, Some(TextHash(text)) >>

\* mark_text_as_pasted(text)
MarkTextAsPasted(text) ==
    /\ last_pasted_text' = TextMarked(text, last_pasted_image_hash)[1]
    /\ last_pasted_image_hash' = TextMarked(text, last_pasted_image_hash)[2]
    /\ last_added_text_hash' = TextMarked(text, last_pasted_image_hash)[3]
    /\ Returned("mark_text_as_pasted", <<>>, 0, "unit", "", 0)
    /\ UNCHANGED << history, created, unpinned >>

\* paste_item(item): mark_as_pasted, then the clipboard is opened and written
\* (an image is decoded first), then simulate_paste; outcome names the first
\* step that fails, or "ok".
PasteItem(item, outcome) ==
    /\ outcome = "decode_err" => item.kind = "image"
    /\ last_pasted_text' = PastedText(item)
    /\ last_pasted_image_hash' = PastedImageHash(item)
    /\ Record(Call("paste_item", <<>>, 0, item.kind,
                   IF outcome = "ok" THEN "ok" ELSE "err", outcome, 0),
              IF item.kind = "text" THEN "paste_text" ELSE "paste_image", item.text)
    /\ UNCHANGED << history, last_added_text_hash, created, unpinned >>

Items(h) == { h[i] : i \in 1..Len(h) }

Next ==
    \/ \E text \in Texts : AddText(text)
    \/ \E input \in ImageInputs, hash \in ImageHashes : AddImage(input, hash)
    \/ Clear
    \/ \E id \in 1..MaxCreated : RemoveItem(id)
    \/ \E id \in 1..MaxCreated : TogglePin(id)
    \/ \E item \in Items(history) : MarkAsPasted(item)
    \/ \E text \in SymbolTexts : MarkTextAsPasted(text)
    \/ \E item \in Items(history), outcome \in PasteOutcomes : PasteItem(item, outcome)

Spec == Init /\ [][Next]_vars

----------------------------------------------------------------------------
\* paste_item call by call (Linux build): mark_as_pasted, the clipboard
\* write, then simulate_paste with its three strategies.  Every fallible call
\* of the code either succeeds or fails.

\* one call of a stage: ev names it, kind classifies it, fallible says whether
\* the code acts on its failure
Op(ev, kind, fallible) == [ev |-> ev, kind |-> kind, fallible |-> fallible]

\* the calls of paste_item between mark_as_pasted and simulate_paste
WriteProgram(item) ==
    IF item.kind = "text"
    THEN << Op("get_clipboard", "open", TRUE),
            Op("set_text", "clipboard_write", TRUE) >>
    ELSE << Op("get_clipboard", "open", TRUE),
            Op("base64_decode", "decode", TRUE),
            Op("load_from_memory", "decode", TRUE),
            Op("set_image", "clipboard_write", TRUE) >>

\* Mutant of UinputProgram: V is pressed before Ctrl.
UinputProgramVFirst ==
    << Op("open_uinput", "open", TRUE),
       Op("UI_SET_EVBIT", "ioctl", TRUE),
       Op("UI_SET_KEYBIT_ctrl", "ioctl", TRUE),
       Op("UI_SET_KEYBIT_v", "ioctl", TRUE),
       Op("UI_DEV_SETUP", "ioctl", TRUE),
       Op("UI_DEV_CREATE", "ioctl", TRUE),
       Op("press_v", "key", TRUE), Op("syn", "key", TRUE), Op("flush", "flush", TRUE),
       Op("press_ctrl", "key", TRUE), Op("syn", "key", TRUE), Op("flush", "flush", TRUE),
       Op("release_v", "key", TRUE), Op("syn", "key", TRUE), Op("flush", "flush", TRUE),
       Op("release_ctrl", "key", TRUE), Op("syn", "key", TRUE), Op("flush", "flush", TRUE),
       Op("UI_DEV_DESTROY", "ioctl", FALSE) >>

\* simulate_paste_uinput: open /dev/uinput, configure and create the device,
\* write the key events (each followed by a SYN_REPORT and a flush), destroy
\* the device.  The value returned by the UI_DEV_DESTROY ioctl is not read.
UinputProgram ==
    << Op("open_uinput", "open", TRUE),
       Op("UI_SET_EVBIT", "ioctl", TRUE),
       Op("UI_SET_KEYBIT_ctrl", "ioctl", TRUE),
       Op("UI_SET_KEYBIT_v", "ioctl", TRUE),
       Op("UI_DEV_SETUP", "ioctl", TRUE),
       Op("UI_DEV_CREATE", "ioctl", TRUE),
       Op("press_ctrl", "key", TRUE), Op("syn", "key", TRUE), Op("flush", "flush", TRUE),
       Op("press_v", "key", TRUE), Op("syn", "key", TRUE), Op("flush", "flush", TRUE),
       Op("release_v", "key", TRUE), Op("syn", "key", TRUE), Op("flush", "flush", TRUE),
       Op("release_ctrl", "key", TRUE), Op("syn", "key", TRUE), Op("flush", "flush", TRUE),
       Op("UI_DEV_DESTROY", "ioctl", FALSE) >>

\* simulate_paste_enigo
EnigoProgram ==
    << Op("enigo_new", "open", TRUE),
       Op("press_ctrl", "key", TRUE),
       Op("press_v", "key", TRUE),
       Op("release_v", "key", TRUE),
       Op("release_ctrl", "key", TRUE) >>

\* the xdotool branch of simulate_paste: DISPLAY is read (failure: not set),
\* the command is run (failure: it could not be run), its exit status is read
\* (failure: not success)
XdotoolProgram ==
    << Op("env_DISPLAY", "env", TRUE),
       Op("run_xdotool", "spawn", TRUE),
       Op("exit_status", "status", TRUE) >>

\* the handle a stage holds once its first call has succeeded is dropped when
\* the stage returns: the File of /dev/uinput, the Enigo
DropOf(by) ==
    IF by = "uinput" THEN << [by |-> by, ev |-> "close_fd", kind |-> "drop", ok |-> TRUE] >>
    ELSE IF by = "enigo" THEN << [by |-> by, ev |-> "drop_enigo", kind |-> "drop", ok |-> TRUE] >>
    ELSE <<>>

\* Mutant of NextStage: a strategy that succeeded is followed by the next one.
NextStageNoShortCircuit(by, ok) ==
    IF by = "paste_item" THEN (IF ok THEN "uinput" ELSE "ret")
    ELSE IF by = "uinput" THEN "enigo"
    ELSE IF by = "enigo" THEN "xdotool"
    ELSE "ret"

\* Mutant of NextStage: simulate_paste is called although the write failed.
NextStageInjectAnyway(by, ok) ==
    IF by = "paste_item" THEN "uinput"
    ELSE IF ok THEN "ret"
    ELSE IF by = "uinput" THEN "enigo"
    ELSE IF by = "enigo" THEN "xdotool"
    ELSE "ret"

\* Mutant of NextStage: simulate_paste gives up when simulate_paste_enigo fails.
NextStageNoXdotool(by, ok) ==
    IF by = "paste_item" THEN (IF ok THEN "uinput" ELSE "ret")
    ELSE IF ok THEN "ret"
    ELSE IF by = "uinput" THEN "enigo"
    ELSE "ret"

\* where control goes when stage `by` has ended: `?` in paste_item returns on
\* a failed write; simulate_paste returns Ok on the first strategy that
\* succeeds and falls through to the next one otherwise
NextStage(by, ok) ==
    IF by = "paste_item" THEN (IF ok THEN "uinput" ELSE "ret")
    ELSE IF ok THEN "ret"
    ELSE IF by = "uinput" THEN "enigo"
    ELSE IF by = "enigo" THEN "xdotool"
    ELSE "ret"

\* the next call of stage `by` is made and succeeds (ok) or fails; the stage
\* ends on its first failure or after its last call
RunStep(by, prog, ok) ==
    LET op   == prog[step]
        done == ~ok \/ step = Len(prog)
        call == [by |-> by, ev |-> op.ev, kind |-> op.kind, ok |-> ok]
        held == step > 1 \/ ok
        to   == NextStage(by, ok)
    IN  /\ ~ok => op.fallible
        /\ trace' = IF done /\ held THEN Append(trace, call) \o DropOf(by)
                    ELSE Append(trace, call)
        /\ step' = IF done THEN 1 ELSE step + 1
        /\ results' = IF done THEN Append(results, [by |-> by, ok |-> ok]) ELSE results
        /\ pc' = IF done THEN to ELSE pc
        /\ simRet' = IF done /\ to = "ret" /\ by # "paste_item"
                     THEN (IF ok THEN "ok" ELSE "err") ELSE simRet
        /\ pasteRet' = IF done /\ to = "ret" THEN (IF ok THEN "ok" ELSE "err") ELSE pasteRet

\* paste_item(item) is called: mark_as_pasted(item)
PasteStart(item) ==
    /\ pc = "idle"
    /\ last_pasted_text' = PastedText(item)
    /\ last_pasted_image_hash' = PastedImageHash(item)
    /\ pasting' = Some(item)
    /\ trace' = << [by |-> "paste_item", ev |-> "mark_as_pasted", kind |-> "arm", ok |-> TRUE] >>
    /\ pc' = "paste_item"
    /\ UNCHANGED << step, results, simRet, pasteRet >>
    /\ UNCHANGED << history, last_added_text_hash, created, last, prev, pasteChain, unpinned >>

PasteFrame ==
    UNCHANGED << history, last_pasted_text, last_pasted_image_hash,
                 last_added_text_hash, created, last, prev, pasteChain, unpinned >>

\* get_clipboard, the decoding of an image, set_text / set_image
WriteStep(ok) ==
    /\ pc = "paste_item"
    /\ \E item \in pasting : RunStep("paste_item", WriteProgram(item), ok)
    /\ UNCHANGED pasting
    /\ PasteFrame

\* simulate_paste_uinput
UinputStep(ok) ==
    /\ pc = "uinput"
    /\ RunStep("uinput", UinputProgram, ok)
    /\ UNCHANGED pasting
    /\ PasteFrame

\* simulate_paste_enigo
EnigoStep(ok) ==
    /\ pc = "enigo"
    /\ RunStep("enigo", EnigoProgram, ok)
    /\ UNCHANGED pasting
    /\ PasteFrame

\* the xdotool branch of simulate_paste
XdotoolStep(ok) ==
    /\ pc = "xdotool"
    /\ RunStep("xdotool", XdotoolProgram, ok)
    /\ UNCHANGED pasting
    /\ PasteFrame

\* paste_item has returned; the next call may begin
PasteReturn ==
    /\ pc = "ret"
    /\ pc' = "idle"
    /\ step' = 1
    /\ trace' = <<>>
    /\ results' = <<>>
    /\ simRet' = "none"
    /\ pasteRet' = "none"
    /\ pasting' = None
    /\ PasteFrame

\* a manager that holds a text item and, above it, an image item
PasteInit ==
    /\ history = InsertItem(InsertItem(<<>>, NewText(1, <<"a">>)), NewImageWithHash(2, 12))
    /\ last_pasted_text = None
    /\ last_pasted_image_hash = None
    /\ last_added_text_hash = Some(TextHash(<<"a">>))
    /\ created = 2
    /\ last = [op |-> "add_image", text |-> <<>>, num |-> 12, kind |-> "", ret |-> "some",
               why |-> "inserted", rid |-> 2, len0 |-> 1]
    /\ prev = NoCall
    /\ pasteChain = NoChain
    /\ unpinned = {}
    /\ PasteIdle

PasteNext ==
    \/ \E item \in Items(history) : PasteStart(item)
    \/ \E ok \in BOOLEAN : WriteStep(ok)
    \/ \E ok \in BOOLEAN : UinputStep(ok)
    \/ \E ok \in BOOLEAN : EnigoStep(ok)
    \/ \E ok \in BOOLEAN : XdotoolStep(ok)
    \/ PasteReturn

PasteSpec == PasteInit /\ [][PasteNext]_vars

----------------------------------------------------------------------------
\* Properties

Adds == {"add_text", "add_image"}

\* the call just made was an add_text / add_image that returned an item
Inserted(call) == call.op \in Adds /\ call.ret = "some"

\* C1: in every reachable state the number of non-pinned items in history is
\* at most the capacity.
C1_NonPinnedWithinCapacity == NonPinnedCount(history) <= MAX_HISTORY_SIZE

\* an insertion into a full history has just evicted an item, and the
\* non-pinned items fill the capacity
C1_Witness ==
    /\ Inserted(last)
    /\ last.len0 = MAX_HISTORY_SIZE
    /\ NonPinnedCount(history) = MAX_HISTORY_SIZE

\* C2: add_text and add_image never remove (or change) an item that is pinned
\* when they are called, and a pinned item leaves history only by remove_item.
C2_PinnedSurviveIngestion ==
    [][ \A i \in 1..Len(history) :
            history[i].pinned =>
                /\ last'.op \in Adds => history[i] \in Items(history')
                /\ history[i].id \notin Ids(history') => last'.op = "remove_item" ]_vars

\* an insertion into a full history whose least recent item is pinned has just
\* evicted another item
C2_Witness ==
    /\ Inserted(last)
    /\ last.len0 = MAX_HISTORY_SIZE
    /\ Len(history) = MAX_HISTORY_SIZE
    /\ history[Len(history)].pinned
    /\ history[Len(history)].id # last.rid

\* C3: an insertion evicts a non-pinned item only while the number of
\* non-pinned items (the new one counted, a removed duplicate not) exceeds
\* the capacity.
C3_EvictOnlyAboveNonPinnedCap ==
    [][ Inserted(last') =>
            LET n == NonPinnedCount(history) + 1
                     - (IF last'.why = "moved" THEN 1 ELSE 0)
            IN  NonPinnedCount(history') < n => n > MAX_HISTORY_SIZE ]_vars

\* C4: no two non-pinned items of history hold the same text.
C4_NoDuplicateNonPinnedText ==
    \A i, j \in NonPinnedIdx(history) :
        (i # j /\ history[i].kind = "text") => ~IsText(history[j], history[i].text)

\* C5 as claimed: after add_text(t); add_text(t) with t not blank, the second
\* call returned none and the history is one longer than before the two calls.
C5_TwiceAddsOne ==
    (prev.op = "add_text" /\ ~IsBlank(last.text)) =>
        /\ last.ret = "none"
        /\ Len(history) = prev.len0 + 1

\* C5, amended: after add_text(t); add_text(t) with t not blank, if the first
\* call was not the one rejected by a pending self-paste suppression then the
\* second call returned none, and the history is one longer than before the
\* two calls when the first call inserted t with no duplicate removed into a
\* history below capacity, and as long as before otherwise.
C5_TwiceAmended ==
    (prev.op = "add_text" /\ ~IsBlank(last.text) /\ prev.why # "pasted") =>
        /\ last.ret = "none"
        /\ Len(history) = prev.len0 +
               (IF prev.why = "inserted" /\ prev.len0 < MAX_HISTORY_SIZE THEN 1 ELSE 0)

\* add_text(t) inserted t and the next call, add_text(t) again, has returned
C5_Witness ==
    /\ prev.op = "add_text"
    /\ prev.why = "inserted"
    /\ last.ret = "none"
    /\ Len(history) = prev.len0 + 1

\* C6: after paste_item(x) of a text item the next add_text of x's text
\* returns none; after one more add_text of another text, a further add_text
\* of x's text returns an item.
C6_SuppressionSingleUse ==
    /\ pasteChain.stage = 2 => last.ret = "none"
    /\ pasteChain.stage = 4 => last.ret = "some"

\* C7: the two suppression slots are never both set, and after
\* mark_as_pasted(item) exactly the slot of the item's kind is set.
C7_OneSlotAtATime ==
    /\ ~(last_pasted_text # None /\ last_pasted_image_hash # None)
    /\ (last.op = "mark_as_pasted" /\ last.kind = "text") =>
           (last_pasted_text # None /\ last_pasted_image_hash = None)
    /\ (last.op = "mark_as_pasted" /\ last.kind = "image") =>
           (last_pasted_text = None /\ last_pasted_image_hash # None)

\* some non-pinned item of h holds text
HeldNonPinned(h, text) == \E i \in NonPinnedIdx(h) : IsText(h[i], text)

\* C8 as claimed: add_text(t), called when a non-pinned item holds t, leaves t
\* in the first non-pinned item and does not lengthen the history.
C8_MovesToFront ==
    [][ (last'.op = "add_text" /\ HeldNonPinned(history, last'.text)) =>
            /\ TopIsText(history', last'.text)
            /\ Len(history') <= Len(history) ]_vars

\* C8, amended: the same, for a text t that is suppressed neither by the
\* rapid-duplicate check (its hash is not last_added_text_hash) nor by a
\* pending self-paste suppression (last_pasted_text is not t).
C8_MovesToFrontUnlessSuppressed ==
    [][ ( /\ last'.op = "add_text"
          /\ HeldNonPinned(history, last'.text)
          /\ last_added_text_hash # Some(TextHash(last'.text))
          /\ last_pasted_text # Some(last'.text) ) =>
            /\ TopIsText(history', last'.text)
            /\ Len(history') <= Len(history) ]_vars

\* add_text has just moved a text that was held further down to the front
C8_Witness ==
    /\ last.op = "add_text"
    /\ last.why = "moved"
    /\ TopIsText(history, last.text)
    /\ Len(history) = last.len0

\* the items at the indices in S are in most-recent-first order
RecentFirst(h, S) == \A i, j \in S : i < j => h[i].timestamp > h[j].timestamp

\* C9 as claimed: the non-pinned items are in most-recent-first order of
\* capture time.
C9_NonPinnedRecentFirst == RecentFirst(history, NonPinnedIdx(history))

\* C9, amended: the non-pinned items that were never pinned are in
\* most-recent-first order of capture time.
C9_NeverPinnedRecentFirst ==
    RecentFirst(history, { i \in NonPinnedIdx(history) : history[i].id \notin unpinned })

\* two never-pinned items, the newer one just inserted into a full history
C9_Witness ==
    /\ Inserted(last)
    /\ last.len0 = MAX_HISTORY_SIZE
    /\ Len(history) = 2
    /\ NonPinnedIdx(history) = {1, 2}
    /\ unpinned = {}
    /\ history[1].id = last.rid

\* C10: an insertion puts the new item immediately before the first
\* non-pinned item, or at the end when every item is pinned: the items before
\* that position keep their index, and the new item, when the trimming left
\* it in, is at that position.
C10_InsertBeforeFirstNonPinned ==
    [][ Inserted(last') =>
            LET h0 == IF last'.op = "add_text"
                      THEN WithoutDup(history, last'.text) ELSE history
                pos == IF FirstNonPinned(h0) = 0 THEN Len(h0) + 1 ELSE FirstNonPinned(h0)
            IN  /\ \A j \in 1..(pos - 1) : j <= Len(history') /\ history'[j] = h0[j]
                /\ last'.rid \in Ids(history') =>
                       (pos <= Len(history') /\ history'[pos].id = last'.rid) ]_vars

\* C14: add_text and add_image never panic: every call returns none or an item.
C14_IngestionNeverPanics == last.op \in Adds => last.ret \in {"none", "some"}

PinnedIdx(h) == { i \in 1..Len(h) : h[i].pinned }

\* C15: clear() removes every non-pinned item and keeps every pinned item, the
\* pinned items in the same relative order.
C15_ClearKeepsPinnedInOrder ==
    [][ last'.op = "clear" =>
            /\ \A k \in 1..Len(history') : history'[k].pinned
            /\ Len(history') = Cardinality(PinnedIdx(history))
            /\ \A i \in PinnedIdx(history) : history[i] \in Items(history')
            /\ \A i, j \in PinnedIdx(history) :
                   i < j => IndexOf(history', history[i].id) < IndexOf(history', history[j].id)
      ]_vars

\* clear() has just removed an item and kept a pinned one
C15_Witness ==
    /\ last.op = "clear"
    /\ last.len0 > Len(history)
    /\ Len(history) >= 1
    /\ history[1].pinned

\* C18: add_image(pixels, h) is rejected as already at the top only when the
\* first non-pinned item is an image whose stored hash is h.
C18_TopRejectOnlyOnEqualHash ==
    [][ (last'.op = "add_image" /\ last'.why = "top") =>
            /\ FirstNonPinned(history) # 0
            /\ history[FirstNonPinned(history)].kind = "image"
            /\ history[FirstNonPinned(history)].previewHash = last'.num ]_vars

\* C19: an item returned by add_text or add_image is in history after the
\* call, as the first non-pinned item.
C19_ReturnedItemIsFirstNonPinned ==
    Inserted(last) =>
        /\ FirstNonPinned(history) # 0
        /\ history[FirstNonPinned(history)].id = last.rid

\* C20: when add_text(t) returns none for a non-blank t while last_pasted_text
\* is not t, some item of history holds t.
C20_RejectedTextIsInHistory ==
    [][ ( /\ last'.op = "add_text"
          /\ last'.ret = "none"
          /\ ~IsBlank(last'.text)
          /\ last_pasted_text # Some(last'.text) ) =>
            \E k \in 1..Len(history') : IsText(history'[k], last'.text) ]_vars

----------------------------------------------------------------------------
\* Properties of paste_item and simulate_paste (PasteSpec)

Strategies == { "uinput", "enigo", "xdotool" }

\* the place of a stage in the order of the code
Rank(by) ==
    IF by = "paste_item" THEN 0 ELSE IF by = "uinput" THEN 1
    ELSE IF by = "enigo" THEN 2 ELSE 3

\* some call of stage s has been made
Started(s) == \E i \in 1..Len(trace) : trace[i].by = s

\* strategy s has been attempted: its device, library handle or command was
\* asked for
Attempted(s) ==
    \E i \in 1..Len(trace) : trace[i].by = s /\ trace[i].kind \in {"open", "spawn"}

Succeeded(s) == \E i \in 1..Len(results) : results[i] = [by |-> s, ok |-> TRUE]

Failed(s) == \E i \in 1..Len(results) : results[i] = [by |-> s, ok |-> FALSE]

\* DISPLAY was read and is not set
DisplayUnset ==
    \E i \in 1..Len(trace) : trace[i].ev = "env_DISPLAY" /\ ~trace[i].ok

\* C11: simulate_paste returns failure only after each of the three
\* strategies has been attempted and has failed.
C11_FailureAfterAllAttempted ==
    simRet = "err" => \A s \in Strategies : Attempted(s) /\ Failed(s)

\* C11 amended: simulate_paste returns failure only after the virtual device
\* and the input library have each been attempted and have failed, and the
\* external command has been attempted and has failed or was not run because
\* DISPLAY is not set.
C11_FailureAfterAllAttemptedOrNoDisplay ==
    simRet = "err" =>
        /\ Attempted("uinput") /\ Failed("uinput")
        /\ Attempted("enigo") /\ Failed("enigo")
        /\ \/ Attempted("xdotool") /\ Failed("xdotool")
           \/ DisplayUnset /\ ~Attempted("xdotool")

C11_Witness ==
    /\ simRet = "err"
    /\ Attempted("xdotool")
    /\ Failed("xdotool")

\* C12: the strategies run in the order A, B, C, a strategy is started only
\* after every earlier one has failed, and once a strategy has succeeded no
\* later one is started and simulate_paste returns success.
C12_InOrderFirstSuccessWins ==
    /\ \A i, j \in 1..Len(trace) : i < j => Rank(trace[i].by) <= Rank(trace[j].by)
    /\ \A s, t \in Strategies : Started(s) /\ Rank(t) < Rank(s) => Failed(t)
    /\ \A s \in Strategies : Succeeded(s) =>
           /\ simRet = "ok"
           /\ pc = "ret"
           /\ \A t \in Strategies : Rank(t) > Rank(s) => ~Started(t)
    /\ simRet = "ok" => \E s \in Strategies : Succeeded(s)

C12_Witness ==
    /\ Failed("uinput")
    /\ Succeeded("enigo")
    /\ simRet = "ok"
    /\ ~Started("xdotool")

WriteFailed == Failed("paste_item")

\* C13: the suppression of the item is armed before the clipboard is opened,
\* decoded for or written; no strategy is started unless the write
\* succeeded; paste_item returns failure exactly when the write or
\* simulate_paste failed, and success otherwise.
C13_ArmWriteInject ==
    /\ \A i \in 1..Len(trace) :
           trace[i].kind \in {"open", "decode", "clipboard_write"} /\ trace[i].by = "paste_item"
               => trace[1].kind = "arm" /\ i > 1
    /\ \A item \in pasting :
           /\ last_pasted_text = PastedText(item)
           /\ last_pasted_image_hash = PastedImageHash(item)
    /\ \A s \in Strategies : Started(s) => Succeeded("paste_item")
    /\ (pc = "ret") = (pasteRet # "none")
    /\ pc = "ret" => /\ (pasteRet = "err") = (WriteFailed \/ simRet = "err")
                     /\ (pasteRet = "ok") = (Succeeded("paste_item") /\ simRet = "ok")

C13_Witness ==
    /\ pc = "ret"
    /\ pasteRet = "err"
    /\ \E i \in 1..Len(trace) : trace[i].ev = "load_from_memory" /\ ~trace[i].ok
    /\ ~Started("uinput")

\* the key events strategy s has emitted, in order
Emitted(s) ==
    LET idx == { i \in 1..Len(trace) :
                     trace[i].by = s /\ trace[i].kind = "key" /\ trace[i].ok }
        RECURSIVE Pick(_)
        Pick(i) == IF i > Len(trace) THEN <<>>
                   ELSE IF i \in idx THEN << trace[i].ev >> \o Pick(i + 1)
                   ELSE Pick(i + 1)
    IN  Pick(1)

Release(press) == IF press = "press_ctrl" THEN "release_ctrl" ELSE "release_v"

\* C16: when strategy A or B has returned failure, every key press it
\* emitted is followed by the release of that key.
C16_NoKeyHeldOnFailure ==
    \A s \in {"uinput", "enigo"} :
        Failed(s) =>
            LET k == Emitted(s) IN
            \A i \in 1..Len(k) :
                k[i] \in {"press_ctrl", "press_v"}
                    => \E j \in (i + 1)..Len(k) : k[j] = Release(k[i])

CtrlV ==
    << "press_ctrl", "syn", "press_v", "syn", "release_v", "syn", "release_ctrl", "syn" >>

\* C17: a successful run of strategy A has emitted exactly press-Ctrl, sync,
\* press-V, sync, release-V, sync, release-Ctrl, sync; every event is emitted
\* after the device was created and before it is destroyed; at no point has a
\* release been emitted before its press or a V press before the Ctrl press.
C17_UinputEventOrder ==
    LET k == Emitted("uinput") IN
    /\ Succeeded("uinput") => k = CtrlV
    /\ \A i \in 1..Len(trace) :
           trace[i].by = "uinput" /\ trace[i].kind = "key" =>
               /\ \E j \in 1..(i - 1) : trace[j].ev = "UI_DEV_CREATE" /\ trace[j].ok
               /\ \A j \in 1..i : trace[j].ev # "UI_DEV_DESTROY"
    /\ Succeeded("uinput") => \E j \in 1..Len(trace) : trace[j].ev = "UI_DEV_DESTROY"
    /\ \A i \in 1..Len(k) :
           /\ k[i] \in {"release_ctrl", "release_v"}
                  => \E j \in 1..(i - 1) :
                         k[j] \in {"press_ctrl", "press_v"} /\ Release(k[j]) = k[i]
           /\ k[i] = "press_v" => \E j \in 1..(i - 1) : k[j] = "press_ctrl"

C17_Witness == Succeeded("uinput") /\ Emitted("uinput") = CtrlV

----------------------------------------------------------------------------
\* C21: a paste_item call that returns failure leaves history, both
\* suppression slots, last_added_text_hash and the item count as they were
\* before the call, and the add_text of the item's text that follows such a
\* call is not rejected by self-paste suppression.
C21_FailedPasteChangesNothing ==
    [][ /\ (last'.op = "paste_item" /\ last'.ret = "err") =>
               /\ history' = history
               /\ last_pasted_text' = last_pasted_text
               /\ last_pasted_image_hash' = last_pasted_image_hash
               /\ last_added_text_hash' = last_added_text_hash
               /\ created' = created
        /\ ( /\ last.op = "paste_item" /\ last.ret = "err"
             /\ pasteChain.stage = 1
             /\ last'.op = "add_text" /\ last'.text = pasteChain.text )
               => last'.why # "pasted"
      ]_vars

============================================================================
